---------------------------- MODULE Spec2Model ----------------------------
(***************************************************************************)
(* Lao word segmentation (LaoWordSplitter.split) and per-word grammar      *)
(* validation (checkLaoWordGrammar, laoGrammarChecker).                    *)
(*                                                                         *)
(* A character is a UTF-16 code unit, written as its integer value: the    *)
(* source indexes JavaScript strings (sentence[i], word[i], .length), so   *)
(* every index and every length below counts code units.  A string is a    *)
(* sequence of code units; the source's index k is position k + 1 here.    *)
(***************************************************************************)
EXTENDS Integers, Sequences, FiniteSets

\* ---------------------------------------------------------------- bounds

\* longest input text, in Unicode code points
MaxLen == 4

\* ------------------------------------------------------- character tables

\* the value of '' / null / undefined where the source reads a missing character
NoChar == -1

SPACE == 32

ZERO_WIDTH_SPACE == 8203

LAO_BLOCK_FIRST == 3712

LAO_BLOCK_LAST == 3839

MAI_YAMOK == 3782

SARA_E == 3776

MAI_KANG == 3761

LETTER_KO == 3713

LETTER_KHO_SUNG == 3714

LETTER_KHO_TAM == 3716

LETTER_THO_TAM == 3735

LETTER_BO == 3738

LETTER_PO == 3739

LETTER_FO_SUNG == 3743

LETTER_RO == 3747

LETTER_WO == 3751

LETTER_HO_SUNG == 3755

LETTER_O == 3757

VOWEL_AM == 3763

LAO_CONSONANTS ==
    { 3713, 3714, 3716, 3719, 3720, 3754, 3722, 3725, 3732, 3733, 3734, 3735,
      3737, 3738, 3739, 3740, 3741, 3742, 3743, 3745, 3746, 3747, 3749, 3751,
      3755, 3757, 3758, 3804, 3805 }

\* variant of LEADING_VOWELS: U+0EC3 is missing
LEADING_VOWELS_WithoutEC3 == { 3776, 3777, 3778, 3780 }

LEADING_VOWELS == { 3776, 3777, 3778, 3780, 3779 }

MIDDLE_CHARS ==
    { 3760, 3762, 3764, 3765, 3766, 3767, 3768, 3769, 3789, 3763, 3784, 3785,
      3786, 3787, 3772, 3788, 3773, 3761, 3771 }

DIGRAPH_FOLLOWERS == { 3719, 3725, 3749, 3751, 3747 }

\* ------------------------------------------------------- string helpers

\* s[k] of the source (k counted from 0); undefined outside the string
CharAt(s, k) == IF k >= 0 /\ k < Len(s) THEN s[k + 1] ELSE NoChar

\* s.slice(0, -n)
DropLast(s, n) == IF Len(s) <= n THEN << >> ELSE SubSeq(s, 1, Len(s) - n)

\* the UTF-16 code units of one Unicode code point
UTF16OfCodePoint(cp) ==
    IF cp < 65536
        THEN << cp >>
        ELSE << 55296 + ((cp - 65536) \div 1024), 56320 + ((cp - 65536) % 1024) >>

\* the JavaScript string holding a text given as code points
RECURSIVE ToUTF16(_)
ToUTF16(cps) ==
    IF cps = << >> THEN << >>
    ELSE UTF16OfCodePoint(Head(cps)) \o ToUTF16(Tail(cps))

isLaoCharacter(char) ==
    /\ char # NoChar
    /\ char >= LAO_BLOCK_FIRST
    /\ char <= LAO_BLOCK_LAST

\* variant of removeZeroWidthSpaces: the pattern lacks the global flag, so only
\* the first zero width space is removed
removeZeroWidthSpaces_FirstOnly(t) ==
    IF \E k \in 1..Len(t) : t[k] = ZERO_WIDTH_SPACE
        THEN LET first == CHOOSE k \in 1..Len(t) :
                              /\ t[k] = ZERO_WIDTH_SPACE
                              /\ \A j \in 1..(k - 1) : t[j] # ZERO_WIDTH_SPACE
             IN  SubSeq(t, 1, first - 1) \o SubSeq(t, first + 1, Len(t))
        ELSE t

RECURSIVE removeZeroWidthSpaces(_)
removeZeroWidthSpaces(t) ==
    IF t = << >> THEN << >>
    ELSE IF Head(t) = ZERO_WIDTH_SPACE
        THEN removeZeroWidthSpaces(Tail(t))
        ELSE << Head(t) >> \o removeZeroWidthSpaces(Tail(t))


\* --------------------------------------------- LaoWordSplitter: helpers

\* a LaoWordInfo
Span(word, startIndex, endIndex) ==
    [word |-> word, startIndex |-> startIndex, endIndex |-> endIndex]

\* Each helper pushes at most one span on resultArray and returns the new
\* current word with its start index; the returned record carries the array
\* as well.
\* variant of addWordToResult: the pushed span ends at currentIndex, not before it
addWordToResult_EndAtIndex(curWord, resultArray, currentIndex, startIdx, newWord) ==
    [ words |-> IF Len(curWord) > 0
                    THEN Append(resultArray, Span(curWord, startIdx, currentIndex))
                    ELSE resultArray,
      word |-> newWord,
      startIndex |-> currentIndex ]

\* variant of addWordToResult: the current word is pushed without testing that
\* it is non-empty
addWordToResult_Unguarded(curWord, resultArray, currentIndex, startIdx, newWord) ==
    [ words |-> Append(resultArray, Span(curWord, startIdx, currentIndex - 1)),
      word |-> newWord,
      startIndex |-> currentIndex ]

addWordToResult(curWord, resultArray, currentIndex, startIdx, newWord) ==
    [ words |-> IF Len(curWord) > 0
                    THEN Append(resultArray, Span(curWord, startIdx, currentIndex - 1))
                    ELSE resultArray,
      word |-> newWord,
      startIndex |-> currentIndex ]

\* variant of handleConsonantVSequence: the span before the cluster ends at
\* currentIndex - 2, the offset handleRegularMiddleChar uses
handleConsonantVSequence_EndAsRegular(curWord, ch, resultArray, currentIndex, startIdx) ==
    LET consonantVSequence ==
            << CharAt(curWord, Len(curWord) - 2), CharAt(curWord, Len(curWord) - 1) >>
        wordBeforeSequence == DropLast(curWord, 2)
    IN  [ words |-> IF Len(wordBeforeSequence) > 0
                        THEN Append(resultArray,
                                    Span(wordBeforeSequence, startIdx, currentIndex - 2))
                        ELSE resultArray,
          word |-> consonantVSequence \o << ch >>,
          startIndex |-> currentIndex - 2 ]

handleConsonantVSequence(curWord, ch, resultArray, currentIndex, startIdx) ==
    LET consonantVSequence ==
            << CharAt(curWord, Len(curWord) - 2), CharAt(curWord, Len(curWord) - 1) >>
        wordBeforeSequence == DropLast(curWord, 2)
    IN  [ words |-> IF Len(wordBeforeSequence) > 0
                        THEN Append(resultArray,
                                    Span(wordBeforeSequence, startIdx, currentIndex - 3))
                        ELSE resultArray,
          word |-> consonantVSequence \o << ch >>,
          startIndex |-> currentIndex - 2 ]

handleConsonantRSequence(curWord, ch, resultArray, currentIndex, startIdx) ==
    LET consonantRSequence ==
            << CharAt(curWord, Len(curWord) - 2), CharAt(curWord, Len(curWord) - 1) >>
        wordBeforeSequence == DropLast(curWord, 2)
    IN  [ words |-> IF Len(wordBeforeSequence) > 0
                        THEN Append(resultArray,
                                    Span(wordBeforeSequence, startIdx, currentIndex - 3))
                        ELSE resultArray,
          word |-> consonantRSequence \o << ch >>,
          startIndex |-> currentIndex - 2 ]

handleDigraphSequence(curWord, ch, resultArray, currentIndex, startIdx) ==
    LET digraph ==
            << CharAt(curWord, Len(curWord) - 2), CharAt(curWord, Len(curWord) - 1) >>
        wordBeforeDigraph == DropLast(curWord, 2)
    IN  [ words |-> IF Len(wordBeforeDigraph) > 0
                        THEN Append(resultArray,
                                    Span(wordBeforeDigraph, startIdx, currentIndex - 3))
                        ELSE resultArray,
          word |-> digraph \o << ch >>,
          startIndex |-> currentIndex - 2 ]

\* variant of handleRegularMiddleChar: the new word is taken to start at the
\* middle character, not at the consonant before it
handleRegularMiddleChar_StartAtIndex(curWord, ch, resultArray, currentIndex, startIdx) ==
    LET lastChar == CharAt(curWord, Len(curWord) - 1)
        wordWithoutLast == DropLast(curWord, 1)
    IN  [ words |-> IF Len(wordWithoutLast) > 0
                        THEN Append(resultArray,
                                    Span(wordWithoutLast, startIdx, currentIndex - 2))
                        ELSE resultArray,
          word |-> << lastChar, ch >>,
          startIndex |-> currentIndex ]

handleRegularMiddleChar(curWord, ch, resultArray, currentIndex, startIdx) ==
    LET lastChar == CharAt(curWord, Len(curWord) - 1)
        wordWithoutLast == DropLast(curWord, 1)
    IN  [ words |-> IF Len(wordWithoutLast) > 0
                        THEN Append(resultArray,
                                    Span(wordWithoutLast, startIdx, currentIndex - 2))
                        ELSE resultArray,
          word |-> << lastChar, ch >>,
          startIndex |-> currentIndex - 1 ]

handleVaOrOSequence(curWord, ch, resultArray, currentIndex, startIdx) ==
    LET lastConsonant == IF Len(curWord) > 0 THEN << curWord[Len(curWord)] >> ELSE << >>
        wordWithoutLast == DropLast(curWord, 1)
    IN  [ words |-> IF Len(wordWithoutLast) > 0
                        THEN Append(resultArray,
                                    Span(wordWithoutLast, startIdx, currentIndex - 2))
                        ELSE resultArray,
          word |-> lastConsonant \o << ch >>,
          startIndex |-> currentIndex - 1 ]

\* ------------------------------------------ checkLaoWordGrammar: tables

CHECKER_LAO_CONSONANTS ==
    { 3713, 3714, 3716, 3719, 3720, 3754, 3722, 3725, 3732, 3733, 3734, 3735,
      3737, 3738, 3739, 3740, 3741, 3742, 3743, 3745, 3746, 3747, 3749, 3751,
      3755, 3757, 3758, 3804, 3805 }

LEADING_VOWELS_RULE1_AND_3 == { 3776, 3777, 3778, 3780, 3779 }

TOP_VOWELS_RULE2 == { 3764, 3765, 3766, 3767 }

\* variant of TONE_MARKS_RULE3: MAI THO is missing
TONE_MARKS_RULE3_OnlyMaiEk == { 3784 }

TONE_MARKS_RULE3 == { 3784, 3785 }

OTHER_DIACRITICS_RULE4 ==
    { 3786, 3787, 3789, 3788, 3771, 3761, 3764, 3765, 3766, 3767, 3768, 3769, 3772 }

VOWEL_IA_RULE5 == 3773

VOWELS_A_AA_RULE6 == { 3760, 3762 }

\* variant of VOWELS_RULE7: the vowel A is missing
VOWELS_RULE7_WithoutVowelA ==
    { 3762, 3764, 3765, 3766, 3767, 3768, 3769, 3789, 3772, 3761, 3771 }

VOWELS_RULE7 ==
    { 3760, 3762, 3764, 3765, 3766, 3767, 3768, 3769, 3789, 3772, 3761, 3771 }

VOWELS_DIACRITICS_RULE8 ==
    { 3760, 3762, 3764, 3765, 3766, 3767, 3768, 3769, 3789, 3772, 3786, 3761,
      3771, 3784, 3785, 3787, 3788, 3773 }

TONES_CANCEL_RULE9 == { 3784, 3785, 3787, 3788 }

VOWELS_A_IA_RULE10 == { 3762, 3773 }

VOWELS_DIACRITICS_RULE10_PREV ==
    { 3760, 3762, 3764, 3765, 3766, 3767, 3768, 3769, 3789, 3786, 3761, 3771,
      3787, 3788, 3773 }

COUNTABLE_VOWELS_DIACRITICS ==
    { 3760, 3762, 3764, 3765, 3766, 3767, 3768, 3769, 3789, 3772, 3786, 3761,
      3771, 3784, 3785, 3787, 3788, 3773 }

\* `c && LAO_CONSONANTS.has(c)` of the checker: false for a missing character
IsConsonant(c) == c # NoChar /\ c \in CHECKER_LAO_CONSONANTS

\* ------------------------------- checkLaoWordGrammar: rules at index k
\* Each operator is TRUE when its rule makes the loop return false at index k.

\* variant of Rule1Fails: rule 1.1 is left out, so that a leading vowel after
\* index 0 is not looked at
Rule1Fails_IndexZeroOnly(word, k) ==
    LET currentChar == CharAt(word, k)
        nextChar == CharAt(word, k + 1)
    IN  /\ k = 0
        /\ \/ nextChar = NoChar
           \/ /\ nextChar \notin CHECKER_LAO_CONSONANTS
              /\ ~(currentChar = SARA_E /\ nextChar = SARA_E)

Rule1Fails(word, k) ==
    LET currentChar == CharAt(word, k)
        previousChar == CharAt(word, k - 1)
        nextChar == CharAt(word, k + 1)
    IN  IF k # 0
            THEN ~(currentChar = SARA_E /\ k = 1 /\ previousChar = SARA_E)
            ELSE \/ nextChar = NoChar
                 \/ /\ nextChar \notin CHECKER_LAO_CONSONANTS
                    /\ ~(currentChar = SARA_E /\ nextChar = SARA_E)

Rule2Fails(word, k) == ~IsConsonant(CharAt(word, k - 1))

\* variant of Rule3Fails: rule 3.5 (Consonant + ToneMark + Consonant) is left out
Rule3Fails_Without35(word, k) ==
    LET prevIsConsonant == IsConsonant(CharAt(word, k - 1))
        prev2IsConsonant == IsConsonant(CharAt(word, k - 2))
        nextChar == CharAt(word, k + 1)
        nextCharIsConsonant == IsConsonant(nextChar)
        nextChar2IsConsonant == IsConsonant(CharAt(word, k + 2))
    IN  \/ ~prevIsConsonant /\ ~prev2IsConsonant
        \/ Len(word) <= 2 /\ nextChar = NoChar
        \/ k = 1 /\ Len(word) < 3
        \/ /\ CharAt(word, 0) \in LEADING_VOWELS_RULE1_AND_3
           /\ nextCharIsConsonant
           /\ nextChar2IsConsonant

\* variant of Rule3Fails: rules 3.2 and 3.3 (the word is too short for a tone
\* mark) are left out
Rule3Fails_WithoutLengthChecks(word, k) ==
    LET prevIsConsonant == IsConsonant(CharAt(word, k - 1))
        prev2IsConsonant == IsConsonant(CharAt(word, k - 2))
        nextCharIsConsonant == IsConsonant(CharAt(word, k + 1))
        nextChar2IsConsonant == IsConsonant(CharAt(word, k + 2))
    IN  \/ ~prevIsConsonant /\ ~prev2IsConsonant
        \/ /\ CharAt(word, 0) \in LEADING_VOWELS_RULE1_AND_3
           /\ nextCharIsConsonant
           /\ nextChar2IsConsonant
        \/ Len(word) = 3 /\ prevIsConsonant /\ nextCharIsConsonant

\* variant of Rule3Fails: rule 3.4 (leading vowel first, two consonants after
\* the tone mark) is left out
Rule3Fails_Without34(word, k) ==
    LET prevIsConsonant == IsConsonant(CharAt(word, k - 1))
        prev2IsConsonant == IsConsonant(CharAt(word, k - 2))
        nextChar == CharAt(word, k + 1)
        nextCharIsConsonant == IsConsonant(nextChar)
    IN  \/ ~prevIsConsonant /\ ~prev2IsConsonant
        \/ Len(word) <= 2 /\ nextChar = NoChar
        \/ k = 1 /\ Len(word) < 3
        \/ Len(word) = 3 /\ prevIsConsonant /\ nextCharIsConsonant

Rule3Fails(word, k) ==
    LET prevIsConsonant == IsConsonant(CharAt(word, k - 1))
        prev2IsConsonant == IsConsonant(CharAt(word, k - 2))
        nextChar == CharAt(word, k + 1)
        nextCharIsConsonant == IsConsonant(nextChar)
        nextChar2IsConsonant == IsConsonant(CharAt(word, k + 2))
    IN  \/ ~prevIsConsonant /\ ~prev2IsConsonant
        \/ Len(word) <= 2 /\ nextChar = NoChar
        \/ k = 1 /\ Len(word) < 3
        \/ /\ CharAt(word, 0) \in LEADING_VOWELS_RULE1_AND_3
           /\ nextCharIsConsonant
           /\ nextChar2IsConsonant
        \/ Len(word) = 3 /\ prevIsConsonant /\ nextCharIsConsonant

\* variant of Rule4Fails: any previous character will do
Rule4Fails_AnyPrevious(word, k) == CharAt(word, k - 1) = NoChar

Rule4Fails(word, k) == ~IsConsonant(CharAt(word, k - 1))

\* variant of Rule5Fails: the consonant is looked for before the vowel
Rule5Fails_PreviousConsonant(word, k) == ~IsConsonant(CharAt(word, k - 1))

Rule5Fails(word, k) == ~IsConsonant(CharAt(word, k + 1))

\* variant of Rule6Fails: only a vowel with nothing before it is rejected
Rule6Fails_AtStartOnly(word, k) == CharAt(word, k - 1) = NoChar

Rule6Fails(word, k) ==
    /\ ~IsConsonant(CharAt(word, k - 1))
    /\ ~IsConsonant(CharAt(word, k - 2))
    /\ ~IsConsonant(CharAt(word, k - 3))

\* the if / else-if chain of rules 1 to 6: the first rule whose character set
\* holds the current character is the only one evaluated
PrimaryRuleFails(word, k) ==
    LET currentChar == CharAt(word, k)
    IN  IF currentChar \in LEADING_VOWELS_RULE1_AND_3 THEN Rule1Fails(word, k)
        ELSE IF currentChar \in TOP_VOWELS_RULE2 THEN Rule2Fails(word, k)
        ELSE IF currentChar \in TONE_MARKS_RULE3 THEN Rule3Fails(word, k)
        ELSE IF /\ currentChar \in OTHER_DIACRITICS_RULE4
                /\ currentChar \notin TOP_VOWELS_RULE2 THEN Rule4Fails(word, k)
        ELSE IF currentChar = VOWEL_IA_RULE5 THEN Rule5Fails(word, k)
        ELSE IF currentChar \in VOWELS_A_AA_RULE6 THEN Rule6Fails(word, k)
        ELSE FALSE

\* variant of Rule7Fails: only two identical vowels are rejected
Rule7Fails_OnlyIdentical(word, k) ==
    /\ CharAt(word, k) \in VOWELS_RULE7
    /\ CharAt(word, k + 1) = CharAt(word, k)

Rule7Fails(word, k) ==
    /\ CharAt(word, k) \in VOWELS_RULE7
    /\ CharAt(word, k + 1) # NoChar
    /\ CharAt(word, k + 1) \in VOWELS_RULE7

Rule8Fails(word, k) ==
    LET currentChar == CharAt(word, k)
        nextChar == CharAt(word, k + 1)
    IN  /\ currentChar \in VOWELS_DIACRITICS_RULE8
        /\ nextChar # NoChar
        /\ nextChar \in VOWELS_DIACRITICS_RULE8
        /\ currentChar = nextChar
        /\ ~(currentChar = SARA_E /\ nextChar = SARA_E)

Rule9Fails(word, k) ==
    /\ CharAt(word, k) \in TONES_CANCEL_RULE9
    /\ CharAt(word, k + 1) # NoChar
    /\ CharAt(word, k + 1) \in TONES_CANCEL_RULE9

\* variant of Rule10Fails: rule 10.2 (two consonants follow) is left out
Rule10Fails_Without102(word, k) ==
    LET previousChar == CharAt(word, k - 1)
    IN  /\ CharAt(word, k) \in VOWELS_A_IA_RULE10
        /\ previousChar # NoChar
        /\ previousChar \in VOWELS_DIACRITICS_RULE10_PREV

Rule10Fails(word, k) ==
    LET previousChar == CharAt(word, k - 1)
    IN  /\ CharAt(word, k) \in VOWELS_A_IA_RULE10
        /\ \/ previousChar # NoChar /\ previousChar \in VOWELS_DIACRITICS_RULE10_PREV
           \/ IsConsonant(CharAt(word, k + 1)) /\ IsConsonant(CharAt(word, k + 2))

\* the loop body returns false at index k
LoopReturnsFalse(word, k) ==
    \/ PrimaryRuleFails(word, k)
    \/ Rule7Fails(word, k)
    \/ Rule8Fails(word, k)
    \/ Rule9Fails(word, k)
    \/ Rule10Fails(word, k)

\* variant of consonantCount: a consonant that occurs twice is counted once
consonantCount_Distinct(word) ==
    Cardinality({ word[k] : k \in 1..Len(word) } \cap CHECKER_LAO_CONSONANTS)

consonantCount(word) ==
    Cardinality({ k \in 1..Len(word) : word[k] \in CHECKER_LAO_CONSONANTS })

vowelCount(word) ==
    Cardinality({ k \in 1..Len(word) :
                    /\ word[k] \notin CHECKER_LAO_CONSONANTS
                    /\ word[k] \in COUNTABLE_VOWELS_DIACRITICS })

\* variant of checkLaoWordGrammar: guard 4.1 (two consonants) is left out
checkLaoWordGrammar_WithoutTwoConsonants(word) ==
    IF word = << SPACE >> THEN TRUE
    ELSE IF Len(word) = 0 THEN FALSE
    ELSE IF Len(word) = 1 THEN word = << MAI_YAMOK >>
    ELSE IF word = << VOWEL_AM >> THEN FALSE
    ELSE IF ~isLaoCharacter(CharAt(word, 0)) THEN TRUE
    ELSE IF Len(word) = 2 /\ word[1] = word[2] /\ word # << SARA_E, SARA_E >> THEN FALSE
    ELSE IF Len(word) = 3 /\ word[1] = word[2] /\ word[2] = word[3] THEN FALSE
    ELSE /\ \A k \in 0..(Len(word) - 1) : ~LoopReturnsFalse(word, k)
         /\ consonantCount(word) # 0
         /\ ~(consonantCount(word) > 4)

\* variant of checkLaoWordGrammar: the guard for one character has no
\* exception for Mai Yamok
checkLaoWordGrammar_NoMaiYamokException(word) ==
    IF word = << SPACE >> THEN TRUE
    ELSE IF Len(word) = 0 THEN FALSE
    ELSE IF Len(word) = 1 THEN FALSE
    ELSE IF ~isLaoCharacter(CharAt(word, 0)) THEN TRUE
    ELSE IF /\ Len(word) = 2
            /\ \/ word[1] \in CHECKER_LAO_CONSONANTS /\ word[2] \in CHECKER_LAO_CONSONANTS
               \/ word[1] = word[2] /\ word # << SARA_E, SARA_E >>
        THEN FALSE
    ELSE IF Len(word) = 3 /\ word[1] = word[2] /\ word[2] = word[3] THEN FALSE
    ELSE /\ \A k \in 0..(Len(word) - 1) : ~LoopReturnsFalse(word, k)
         /\ consonantCount(word) # 0
         /\ ~(consonantCount(word) > 4)

\* variant of ReachesGuard2: word-level guard 2 stands before guard 1
ReachesGuard2_BeforeGuard1(word) ==
    /\ word # << SPACE >>
    /\ Len(word) # 0

\* control reaches word-level guard 2: the guards before it did not return
ReachesGuard2(word) ==
    /\ word # << SPACE >>
    /\ Len(word) # 0
    /\ Len(word) # 1

\* word-level guard 2 returns false
Guard2Returns(word) == ReachesGuard2(word) /\ word = << VOWEL_AM >>

\* Every exit of the loop and of the checks after it returns false except the
\* last one, so the verdict of a word that reaches the loop is: no index makes
\* the loop return false, and the consonant count is 1 to 4.
checkLaoWordGrammar(word) ==
    IF word = << SPACE >> THEN TRUE
    ELSE IF Len(word) = 0 THEN FALSE
    ELSE IF Len(word) = 1 THEN word = << MAI_YAMOK >>
    ELSE IF word = << VOWEL_AM >> THEN FALSE
    ELSE IF ~isLaoCharacter(CharAt(word, 0)) THEN TRUE
    ELSE IF /\ Len(word) = 2
            /\ \/ word[1] \in CHECKER_LAO_CONSONANTS /\ word[2] \in CHECKER_LAO_CONSONANTS
               \/ word[1] = word[2] /\ word # << SARA_E, SARA_E >>
        THEN FALSE
    ELSE IF Len(word) = 3 /\ word[1] = word[2] /\ word[2] = word[3] THEN FALSE
    ELSE /\ \A k \in 0..(Len(word) - 1) : ~LoopReturnsFalse(word, k)
         /\ consonantCount(word) # 0
         /\ ~(consonantCount(word) > 4)


\* ------------------------------------------------------------ the state

VARIABLES
    text,            \* the argument of the call, as Unicode code points
    sentence,        \* split's `sentence`: the argument's code units, later stripped
    i,               \* split's loop index
    currentWord,     \* split's word in progress
    wordStartIndex,  \* index of currentWord's first code unit
    words,           \* split's result array
    results,         \* laoGrammarChecker's result array
    pc,              \* "call", "scan", "split_done" or "done";
                     \* "validate" or "validated" around a call of the validator
    earlier,         \* the calls that returned before this one: text and results
    wordArg,         \* checkLaoWordGrammar's argument `word`, as code units
    verdict          \* what checkLaoWordGrammar returned

vars == << text, sentence, i, currentWord, wordStartIndex, words, results, pc,
           earlier, wordArg, verdict >>

\* the code points the input texts of Spec are drawn from: space, a Latin
\* letter, zero width space, Mai Yamok, SARA E, KO, WO, RO, HO SUNG, vowel AA
Alphabet == { 32, 97, 8203, 3782, 3776, 3713, 3751, 3747, 3755, 3762 }

\* the code points of SpecAstral: the only non-Lao character besides the space
\* lies outside the Basic Multilingual Plane (U+1F600)
AstralAlphabet == { 32, 128512, 3782, 3776, 3713, 3751, 3762 }

Texts(alphabet) == UNION { [1..n -> alphabet] : n \in 0..MaxLen }

\* laoGrammarChecker(text) has been called, with text one of `texts`, and
\* split is about to run
InitFrom(texts) ==
    /\ text \in texts
    /\ sentence = ToUTF16(text)
    /\ i = 0
    /\ currentWord = << >>
    /\ wordStartIndex = 0
    /\ words = << >>
    /\ results = << >>
    /\ pc = "call"
    /\ earlier = << >>
    /\ wordArg = << >>
    /\ verdict = FALSE

InitOver(alphabet) == InitFrom(Texts(alphabet))

Init == InitOver(Alphabet)

InitAstral == InitOver(AstralAlphabet)

\* ------------------------------------------- split: entry and preprocessing

\* `if (!sentence || sentence.length === 0) return [];`
SplitEmpty ==
    /\ pc = "call"
    /\ Len(sentence) = 0
    /\ words' = << >>
    /\ pc' = "split_done"
    /\ UNCHANGED << text, sentence, i, currentWord, wordStartIndex, results,
                    earlier, wordArg, verdict >>

\* variant of SplitPreprocess: the result array and the word in progress are
\* kept from the call before instead of being created by this call
SplitPreprocess_KeepLocals ==
    /\ pc = "call"
    /\ Len(sentence) # 0
    /\ sentence' = removeZeroWidthSpaces(sentence)
    /\ i' = 0
    /\ pc' = "scan"
    /\ UNCHANGED << text, results, words, currentWord, wordStartIndex, earlier,
                    wordArg, verdict >>

\* `sentence = this.removeZeroWidthSpaces(sentence);` and the loop's set-up
SplitPreprocess ==
    /\ pc = "call"
    /\ Len(sentence) # 0
    /\ sentence' = removeZeroWidthSpaces(sentence)
    /\ words' = << >>
    /\ currentWord' = << >>
    /\ wordStartIndex' = 0
    /\ i' = 0
    /\ pc' = "scan"
    /\ UNCHANGED << text, results, earlier, wordArg, verdict >>

\* ------------------------------------ split: the context of one iteration

InLoop == pc = "scan" /\ i < Len(sentence)

char == CharAt(sentence, i)

currentCharIsLao == isLaoCharacter(char)

lastCharOfCurrentWord == CharAt(currentWord, Len(currentWord) - 1)

lastCharWasLao == isLaoCharacter(lastCharOfCurrentWord)

secondLastChar ==
    IF Len(currentWord) > 1 THEN CharAt(currentWord, Len(currentWord) - 2) ELSE NoChar

\* variant of nextChar: the character two places ahead is read
nextChar_TwoAhead == CharAt(sentence, i + 2)

nextChar == CharAt(sentence, i + 1)

\* what an iteration leaves: the result array, the current word and its start
Outcome(w, cw, start) == [words |-> w, word |-> cw, startIndex |-> start]

\* every guard ends in `continue` (or the loop's end), so the loop index
\* advances by one after the guard that ran
Iterate(result) ==
    /\ words' = result.words
    /\ currentWord' = result.word
    /\ wordStartIndex' = result.startIndex
    /\ i' = i + 1
    /\ UNCHANGED << text, sentence, results, pc, earlier, wordArg, verdict >>

\* --------------------------------------------------- split: the guards

IsSpace == char = SPACE

\* variant of SpaceOutcome: no space guard, the space is handled as any other
\* non-Lao character
SpaceOutcome_AsNonLao ==
    IF lastCharWasLao
        THEN addWordToResult(currentWord, words, i, wordStartIndex, << char >>)
        ELSE Outcome(words, currentWord \o << char >>, wordStartIndex)

\* variant of SpaceOutcome: the next word is taken to start at the space
SpaceOutcome_StartAtSpace ==
    LET result == addWordToResult(currentWord, words, i, wordStartIndex, << >>)
    IN  Outcome(Append(result.words, Span(<< SPACE >>, i, i)), result.word, i)

SpaceOutcome ==
    LET result == addWordToResult(currentWord, words, i, wordStartIndex, << >>)
    IN  Outcome(Append(result.words, Span(<< SPACE >>, i, i)), result.word, i + 1)

SpaceGuard ==
    /\ InLoop
    /\ IsSpace
    /\ Iterate(SpaceOutcome)

IsNonLao == ~IsSpace /\ ~currentCharIsLao

\* variant of NonLaoOutcome: every non-Lao character ends the current word
NonLaoOutcome_AlwaysFlush ==
    addWordToResult(currentWord, words, i, wordStartIndex, << char >>)

\* variant of NonLaoOutcome: a non-Lao character is appended to whatever the
\* current word holds
NonLaoOutcome_AlwaysAppend ==
    Outcome(words, currentWord \o << char >>, wordStartIndex)

NonLaoOutcome ==
    IF lastCharWasLao
        THEN addWordToResult(currentWord, words, i, wordStartIndex, << char >>)
        ELSE Outcome(words, currentWord \o << char >>, wordStartIndex)

NonLaoGuard ==
    /\ InLoop
    /\ IsNonLao
    /\ Iterate(NonLaoOutcome)

IsMaiYamok == ~IsSpace /\ currentCharIsLao /\ char = MAI_YAMOK

MaiYamokOutcome ==
    addWordToResult(currentWord, words, i, wordStartIndex, << MAI_YAMOK >>)

MaiYamokGuard ==
    /\ InLoop
    /\ IsMaiYamok
    /\ Iterate(MaiYamokOutcome)

IsLeadingVowel ==
    /\ ~IsSpace
    /\ currentCharIsLao
    /\ char # MAI_YAMOK
    /\ char \in LEADING_VOWELS

\* variant of LeadingVowelOutcome: a second SARA E splits like any leading vowel
LeadingVowelOutcome_AlwaysSplit ==
    addWordToResult(currentWord, words, i, wordStartIndex, << char >>)

LeadingVowelOutcome ==
    IF char = SARA_E /\ lastCharOfCurrentWord = SARA_E
        THEN Outcome(words, currentWord \o << char >>, wordStartIndex)
        ELSE addWordToResult(currentWord, words, i, wordStartIndex, << char >>)

LeadingVowelGuard ==
    /\ InLoop
    /\ IsLeadingVowel
    /\ Iterate(LeadingVowelOutcome)

\* a Lao character that is neither Mai Yamok nor a leading vowel
IsOtherLao ==
    /\ ~IsSpace
    /\ currentCharIsLao
    /\ char # MAI_YAMOK
    /\ char \notin LEADING_VOWELS

IsNonLaoToLao == IsOtherLao /\ ~lastCharWasLao /\ Len(currentWord) > 0

NonLaoToLaoOutcome ==
    addWordToResult(currentWord, words, i, wordStartIndex, << char >>)

NonLaoToLaoGuard ==
    /\ InLoop
    /\ IsNonLaoToLao
    /\ Iterate(NonLaoToLaoOutcome)

IsMiddleChar == IsOtherLao /\ ~IsNonLaoToLao /\ char \in MIDDLE_CHARS

\* variant of shouldAppendMiddleChar: MAI KANG is appended to any word of two
\* characters or more
shouldAppendMiddleChar_AnyMaiKang ==
    \/ lastCharOfCurrentWord \in MIDDLE_CHARS
    \/ /\ char = MAI_KANG
       /\ Len(currentWord) >= 2

shouldAppendMiddleChar ==
    \/ lastCharOfCurrentWord \in MIDDLE_CHARS
    \/ /\ char = MAI_KANG
       /\ Len(currentWord) >= 2
       /\ secondLastChar \in LEADING_VOWELS

IsConsonantVSequence ==
    /\ Len(currentWord) >= 2
    /\ lastCharOfCurrentWord = LETTER_WO
    /\ secondLastChar \in { LETTER_KO, LETTER_KHO_SUNG, LETTER_KHO_TAM }

IsConsonantRSequence ==
    /\ Len(currentWord) >= 2
    /\ lastCharOfCurrentWord = LETTER_RO
    /\ secondLastChar \in
           { LETTER_THO_TAM, LETTER_PO, LETTER_KO, LETTER_BO, LETTER_FO_SUNG }

IsDigraphSequence ==
    /\ Len(currentWord) >= 2
    /\ secondLastChar = LETTER_HO_SUNG
    /\ lastCharOfCurrentWord \in DIGRAPH_FOLLOWERS

isLastCharConsonant == lastCharOfCurrentWord \in LAO_CONSONANTS

isSecondLastLeadingVowel == Len(currentWord) >= 2 /\ secondLastChar \in LEADING_VOWELS

\* variant of MiddleCharOutcome: the regular split before the last consonant
\* is tried before the three cluster patterns
MiddleCharOutcome_RegularFirst ==
    IF Len(currentWord) = 0
        THEN Outcome(words, << char >>, wordStartIndex)
    ELSE IF shouldAppendMiddleChar
        THEN Outcome(words, currentWord \o << char >>, wordStartIndex)
    ELSE IF isLastCharConsonant /\ ~isSecondLastLeadingVowel
        THEN handleRegularMiddleChar(currentWord, char, words, i, wordStartIndex)
    ELSE IF IsConsonantVSequence
        THEN handleConsonantVSequence(currentWord, char, words, i, wordStartIndex)
    ELSE IF IsConsonantRSequence
        THEN handleConsonantRSequence(currentWord, char, words, i, wordStartIndex)
    ELSE IF IsDigraphSequence
        THEN handleDigraphSequence(currentWord, char, words, i, wordStartIndex)
    ELSE Outcome(words, currentWord \o << char >>, wordStartIndex)

MiddleCharOutcome ==
    IF Len(currentWord) = 0
        THEN Outcome(words, << char >>, wordStartIndex)
    ELSE IF shouldAppendMiddleChar
        THEN Outcome(words, currentWord \o << char >>, wordStartIndex)
    ELSE IF IsConsonantVSequence
        THEN handleConsonantVSequence(currentWord, char, words, i, wordStartIndex)
    ELSE IF IsConsonantRSequence
        THEN handleConsonantRSequence(currentWord, char, words, i, wordStartIndex)
    ELSE IF IsDigraphSequence
        THEN handleDigraphSequence(currentWord, char, words, i, wordStartIndex)
    ELSE IF isLastCharConsonant /\ ~isSecondLastLeadingVowel
        THEN handleRegularMiddleChar(currentWord, char, words, i, wordStartIndex)
    ELSE Outcome(words, currentWord \o << char >>, wordStartIndex)

MiddleCharGuard ==
    /\ InLoop
    /\ IsMiddleChar
    /\ Iterate(MiddleCharOutcome)

\* variant of IsVaOrO: the character after WO / O is not looked at
IsVaOrO_NoLookahead ==
    /\ IsOtherLao
    /\ ~IsNonLaoToLao
    /\ char \notin MIDDLE_CHARS
    /\ char \in { LETTER_WO, LETTER_O }
    /\ Len(currentWord) > 0
    /\ lastCharOfCurrentWord \in LAO_CONSONANTS

\* the WO / O guard runs its handler only when both neighbours are consonants;
\* otherwise control falls through to the default append
IsVaOrO ==
    /\ IsOtherLao
    /\ ~IsNonLaoToLao
    /\ char \notin MIDDLE_CHARS
    /\ char \in { LETTER_WO, LETTER_O }
    /\ Len(currentWord) > 0
    /\ lastCharOfCurrentWord \in LAO_CONSONANTS
    /\ nextChar # NoChar
    /\ isLaoCharacter(nextChar)
    /\ nextChar \in LAO_CONSONANTS

VaOrOOutcome == handleVaOrOSequence(currentWord, char, words, i, wordStartIndex)

VaOrOGuard ==
    /\ InLoop
    /\ IsVaOrO
    /\ Iterate(VaOrOOutcome)

\* variant of IsDefault: a WO or O that the WO / O guard does not handle is not
\* passed on to the default append
IsDefault_NoFallthrough ==
    /\ IsOtherLao
    /\ ~IsNonLaoToLao
    /\ char \notin MIDDLE_CHARS
    /\ char \notin { LETTER_WO, LETTER_O }

IsDefault ==
    /\ IsOtherLao
    /\ ~IsNonLaoToLao
    /\ char \notin MIDDLE_CHARS
    /\ ~IsVaOrO

DefaultOutcome == Outcome(words, currentWord \o << char >>, wordStartIndex)

DefaultAppend ==
    /\ InLoop
    /\ IsDefault
    /\ Iterate(DefaultOutcome)

\* ------------------------------------------- split: after the loop

\* variant of FinalWords: the last span ends at sentence.length
FinalWords_EndAtLength ==
    LET pushed == IF Len(currentWord) > 0
                      THEN Append(words, Span(currentWord, wordStartIndex, Len(sentence)))
                      ELSE words
    IN  SelectSeq(pushed, LAMBDA w : Len(w.word) > 0)

\* variant of FinalWords: the current word is pushed without testing that it
\* is non-empty, and nothing is filtered
FinalWords_Unguarded ==
    Append(words, Span(currentWord, wordStartIndex, Len(sentence) - 1))

FinalWords ==
    LET pushed == IF Len(currentWord) > 0
                      THEN Append(words,
                                  Span(currentWord, wordStartIndex, Len(sentence) - 1))
                      ELSE words
    IN  SelectSeq(pushed, LAMBDA w : Len(w.word) > 0)

FinalFlush ==
    /\ pc = "scan"
    /\ i >= Len(sentence)
    /\ words' = FinalWords
    /\ pc' = "split_done"
    /\ UNCHANGED << text, sentence, i, currentWord, wordStartIndex, results,
                    earlier, wordArg, verdict >>

\* ------------------------------------------------- laoGrammarChecker

CheckResult(wordInfo) ==
    [ word |-> wordInfo.word,
      startIndex |-> wordInfo.startIndex,
      endIndex |-> wordInfo.endIndex,
      grammarCorrect |-> checkLaoWordGrammar(wordInfo.word) ]

\* variant of MapWords: the space spans are left out of the result
MapWords_SkipSpaces(wordInfos) ==
    LET kept == SelectSeq(wordInfos, LAMBDA w : w.word # << SPACE >>)
    IN  [k \in 1..Len(kept) |-> CheckResult(kept[k])]

MapWords(wordInfos) == [k \in 1..Len(wordInfos) |-> CheckResult(wordInfos[k])]

\* `wordInfos.map(...)` on the array split returned
CheckWords ==
    /\ pc = "split_done"
    /\ results' = MapWords(words)
    /\ pc' = "done"
    /\ UNCHANGED << text, sentence, i, currentWord, wordStartIndex, words,
                    earlier, wordArg, verdict >>

\* ------------------------------------------------------ specification

Next ==
    \/ SplitEmpty
    \/ SplitPreprocess
    \/ SpaceGuard
    \/ NonLaoGuard
    \/ MaiYamokGuard
    \/ LeadingVowelGuard
    \/ NonLaoToLaoGuard
    \/ MiddleCharGuard
    \/ VaOrOGuard
    \/ DefaultAppend
    \/ FinalFlush
    \/ CheckWords

Spec == Init /\ [][Next]_vars

SpecAstral == InitAstral /\ [][Next]_vars

\* the code points of SpecVowels: space, a Latin letter, Mai Yamok, the leading
\* vowels U+0EC0, U+0EC3 and U+0EC2, KO, WO, vowel AA
VowelAlphabet == { 32, 97, 3782, 3776, 3779, 3778, 3713, 3751, 3762 }

\* the texts of SpecVowels: those over VowelAlphabet, and each of the five
\* leading vowels between any two characters
VowelTexts ==
    Texts(VowelAlphabet)
        \cup { << a, v, b >> : a \in VowelAlphabet \cup { 3777, 3780 },
                               v \in { 3776, 3777, 3778, 3780, 3779 },
                               b \in VowelAlphabet \cup { 3777, 3780 } }

InitVowels == InitFrom(VowelTexts)

SpecVowels == InitVowels /\ [][Next]_vars

\* the code points of SpecClusters: space, a Latin letter, Mai Yamok, SARA E,
\* KO, WO, O, RO, HO SUNG, vowel AA
ClusterAlphabet == { 32, 97, 3782, 3776, 3713, 3751, 3757, 3747, 3755, 3762 }

InitClusters == InitOver(ClusterAlphabet)

SpecClusters == InitClusters /\ [][Next]_vars

\* the code points of SpecOnset: space, a Latin letter, Mai Yamok, SARA E, KO,
\* WO, HO SUNG, vowel AA, MAI KANG
OnsetAlphabet == { 32, 97, 3782, 3776, 3713, 3751, 3755, 3762, 3761 }

InitOnset == InitOver(OnsetAlphabet)

SpecOnset == InitOnset /\ [][Next]_vars

\* ------------------------------------- several calls, one after another

\* the calls of SpecCalls: at most MaxCalls calls of laoGrammarChecker, the
\* first on any text of at most MaxCallLen code points of CallAlphabet or on
\* one of ExampleTexts
MaxCalls == 3

MaxCallLen == 2

\* space, a Latin letter, zero width space, Mai Yamok, SARA E, KO, WO, vowel AA
CallAlphabet == { 32, 97, 8203, 3782, 3776, 3713, 3751, 3762 }

\* the sentence of the repository's test 'should identify incorrect grammar',
\* and three words with zero width spaces inside
ExampleTexts ==
    { << 3739, 32, 3735, 3785, 3732, 32, 3749, 3751 >>,   \* "ປ ທ້ດ ລວ"
      << 3713, 8203, 3762, 8203, 3751 >>,                 \* "ກ", ZWSP, "າ", ZWSP, "ວ"
      << 3754, 8203, 3751, 3725 >>,                       \* "ສ", ZWSP, "ວຍ"
      << 3776, 8203, 8203, 3713, 3782 >> }                \* "ເ", ZWSP, ZWSP, "ກໆ"

CallTexts == UNION { [1..n -> CallAlphabet] : n \in 0..MaxCallLen } \cup ExampleTexts

\* what a caller passes between a call and its repetition: the empty text and
\* "ກາ a"
OtherTexts == { << >>, << 3713, 3762, 32, 97 >> }

\* t with every U+200B removed
WithoutZeroWidthSpaces(t) == SelectSeq(t, LAMBDA c : c # ZERO_WIDTH_SPACE)

InitCalls == InitFrom(CallTexts)

\* the call returned, and the caller calls laoGrammarChecker again: on the
\* first call's text, on that text without its zero width spaces, or on
\* another text. A call constructs its own LaoWordSplitter and its own locals;
\* what the call before left in them is still in memory when it starts.
CallAgain ==
    /\ pc = "done"
    /\ Len(earlier) + 1 < MaxCalls
    /\ earlier' = Append(earlier, [text |-> text, words |-> words, results |-> results])
    /\ \E t \in OtherTexts
                 \cup { earlier'[1].text, WithoutZeroWidthSpaces(earlier'[1].text) } :
          /\ text' = t
          /\ sentence' = ToUTF16(t)
    /\ pc' = "call"
    /\ UNCHANGED << i, currentWord, wordStartIndex, words, results, wordArg, verdict >>

NextCalls == Next \/ CallAgain

SpecCalls == InitCalls /\ [][NextCalls]_vars

\* ------------------------------ two calls on texts with a common prefix

\* the calls of SpecPrefix: a call on any text of at most MaxPrefixLen code
\* points of PrefixAlphabet, then a call on a text that starts as the first
\* one does; every iteration of split's loop leaves a record of what it left
MaxPrefixLen == 4

\* space, a Latin letter, SARA E, KO, WO, vowel AA
PrefixAlphabet == { 32, 97, 3776, 3713, 3751, 3762 }

PrefixTexts == UNION { [1..n -> PrefixAlphabet] : n \in 0..MaxPrefixLen }

\* what the second text has where it leaves the first: nothing, a space, a
\* consonant or a vowel
Tails == { << >>, << 32 >>, << 3713 >>, << 3762 >> }

\* the texts that start as t does: t with its last character replaced or
\* dropped, or t and one more character
StartingAs(t) ==
    { SubSeq(t, 1, m) \o tail : m \in { Len(t) - 1, Len(t) } \ { 0 }, tail \in Tails }
        \ { t }

InitPrefix == InitFrom(PrefixTexts)

\* one iteration of the loop: the first guard whose condition holds decides
ScanOutcome ==
    IF IsSpace THEN SpaceOutcome
    ELSE IF IsNonLao THEN NonLaoOutcome
    ELSE IF IsMaiYamok THEN MaiYamokOutcome
    ELSE IF IsLeadingVowel THEN LeadingVowelOutcome
    ELSE IF IsNonLaoToLao THEN NonLaoToLaoOutcome
    ELSE IF IsMiddleChar THEN MiddleCharOutcome
    ELSE IF IsVaOrO THEN VaOrOOutcome
    ELSE DefaultOutcome

\* what an iteration left, kept for comparing calls: the input, the index of
\* the next iteration, the result array, the current word and its start
Left(s, next, w, cw, start) ==
    [ sentence |-> s, i |-> next, words |-> w, currentWord |-> cw,
      wordStartIndex |-> start ]

\* an iteration of the loop, with a record of what it left
TracedIteration ==
    /\ InLoop
    /\ words' = ScanOutcome.words
    /\ currentWord' = ScanOutcome.word
    /\ wordStartIndex' = ScanOutcome.startIndex
    /\ i' = i + 1
    /\ earlier' = Append(earlier,
                         Left(sentence, i', words', currentWord', wordStartIndex'))
    /\ UNCHANGED << text, sentence, results, pc, wordArg, verdict >>

\* the first call returned, and the caller calls laoGrammarChecker on a text
\* that starts as the first one does
CallOnTextStartingAs ==
    /\ pc = "done"
    /\ \A k \in 1..Len(earlier) : earlier[k].sentence = sentence
    /\ \E t \in StartingAs(text) :
          /\ text' = t
          /\ sentence' = ToUTF16(t)
    /\ pc' = "call"
    /\ UNCHANGED << i, currentWord, wordStartIndex, words, results, earlier,
                    wordArg, verdict >>

NextPrefix ==
    \/ SplitEmpty
    \/ SplitPreprocess
    \/ TracedIteration
    \/ FinalFlush
    \/ CheckWords
    \/ CallOnTextStartingAs

SpecPrefix == InitPrefix /\ [][NextPrefix]_vars

\* ------------------------- a text with a space, and the texts around it

\* the calls of SpecSpaces: a call on any text of at most MaxPartsLen code
\* points of PartsAlphabet, then a call on what stands before one of its
\* spaces, then a call on what stands after that space
MaxPartsLen == 4

\* space, a Latin letter, Mai Yamok, SARA E, KO, WO, vowel AA
PartsAlphabet == { 32, 97, 3782, 3776, 3713, 3751, 3762 }

PartsTexts == UNION { [1..n -> PartsAlphabet] : n \in 0..MaxPartsLen }

\* what stands before a space of t
BeforeSpace(t) == { SubSeq(t, 1, p - 1) : p \in { q \in 1..Len(t) : t[q] = SPACE } }

\* what stands in t after the space that follows a
AfterSpace(t, a) == { SubSeq(t, Len(a) + 2, Len(t)) }

InitParts == InitFrom(PartsTexts)

\* the call returned, and the caller calls laoGrammarChecker on a part of the
\* first call's text: after the first call on what is before a space, after
\* the second on what is after that space
CallOnPart ==
    /\ pc = "done"
    /\ Len(earlier) < 2
    /\ earlier' = Append(earlier, [text |-> text, words |-> words, results |-> results])
    /\ \E t \in IF Len(earlier) = 0 THEN BeforeSpace(text)
                                     ELSE AfterSpace(earlier[1].text, text) :
          /\ text' = t
          /\ sentence' = ToUTF16(t)
    /\ pc' = "call"
    /\ UNCHANGED << i, currentWord, wordStartIndex, words, results, wordArg, verdict >>

NextParts == Next \/ CallOnPart

SpecSpaces == InitParts /\ [][NextParts]_vars

\* ------------------------------------- checkLaoWordGrammar on its own

\* the words of SpecValidator: every word of at most MaxWordLen code points of
\* WordAlphabet, every word of at most MaxRuleWordLen code points of
\* RuleAlphabet, every word of one or two characters of AnyChar, and every
\* Consonant + tone mark + Consonant word, and the words of DoubledTexts
MaxWordLen == 5

MaxRuleWordLen == 3

\* a Latin letter, KO, WO, SARA E, SARA EI, MAI EK, vowel AA, vowel I
WordAlphabet == { 97, 3713, 3751, 3776, 3777, 3784, 3762, 3764 }

\* members of every table of the checker: a Latin letter, KO, WO, SARA E,
\* SARA AI, vowel I, MAI EK, MAI THO, MAI TI, MAI CATAWA, NIGGAHITA, the
\* cancellation mark, MAI KON, MAI KANG, vowel U, the ligation mark, vowel IA,
\* vowel A, vowel AA, vowel AM, and the Lao digit zero, which is in no table
RuleAlphabet ==
    { 97, 3713, 3751, 3776, 3779, 3764, 3784, 3785, 3786, 3787, 3789, 3788, 3771,
      3761, 3768, 3772, 3773, 3760, 3762, 3763, 3792 }

\* the Lao block, the space, a Latin letter, the zero width space and U+1F600
AnyChar == (LAO_BLOCK_FIRST..LAO_BLOCK_LAST) \cup { 32, 97, 8203, 128512 }

\* every member of the table of rule 8, and SARA E, twice in a row: alone,
\* after KO, before KO, and between two KO
DoubledTexts ==
    { before \o << x, x >> \o after :
          x \in VOWELS_DIACRITICS_RULE8 \cup { SARA_E },
          before \in { << >>, << 3713 >> },
          after \in { << >>, << 3713 >> } }

ValidatorTexts ==
    UNION { [1..n -> WordAlphabet] : n \in 0..MaxWordLen }
        \cup UNION { [1..n -> RuleAlphabet] : n \in 1..MaxRuleWordLen }
        \cup UNION { [1..n -> AnyChar] : n \in 1..2 }
        \cup { << a, t, b >> : a \in CHECKER_LAO_CONSONANTS, t \in { 3784, 3785 },
                               b \in CHECKER_LAO_CONSONANTS }
        \cup DoubledTexts

\* checkLaoWordGrammar(word) is about to run on the string of the code points
\* `text`
InitValidator ==
    /\ text \in ValidatorTexts
    /\ wordArg = ToUTF16(text)
    /\ verdict = FALSE
    /\ pc = "validate"
    /\ sentence = << >>
    /\ i = 0
    /\ currentWord = << >>
    /\ wordStartIndex = 0
    /\ words = << >>
    /\ results = << >>
    /\ earlier = << >>

\* the call returns
Validate ==
    /\ pc = "validate"
    /\ verdict' = checkLaoWordGrammar(wordArg)
    /\ pc' = "validated"
    /\ UNCHANGED << text, sentence, i, currentWord, wordStartIndex, words, results,
                    earlier, wordArg >>

NextValidator == Validate

SpecValidator == InitValidator /\ [][NextValidator]_vars


\* =================================================================
\* Properties
\* =================================================================

\* split has returned: `words` is its result and `sentence` the preprocessed input
SplitReturned == pc \in { "split_done", "done" }

\* the characters of a string
Chars(s) == { s[k] : k \in 1..Len(s) }

\* sentence.substring(a, b + 1)
Slice(s, a, b) == SubSeq(s, a + 1, b + 1)

RECURSIVE ConcatWords(_)
ConcatWords(ws) ==
    IF ws = << >> THEN << >> ELSE Head(ws).word \o ConcatWords(Tail(ws))

\* C1: the spans split returns are ordered and contiguous over the preprocessed
\* input of length L: the first starts at 0, each next one starts one past the
\* end of the one before, the last ends at L - 1, and the words concatenated in
\* order are the preprocessed input.
C1_SpansTileInput ==
    SplitReturned =>
        /\ Len(words) > 0 =>
              /\ words[1].startIndex = 0
              /\ words[Len(words)].endIndex = Len(sentence) - 1
        /\ \A k \in 1..(Len(words) - 1) :
              words[k + 1].startIndex = words[k].endIndex + 1
        /\ ConcatWords(words) = sentence

\* a result of three or more spans, one of them longer than one character
C1_Witness ==
    /\ SplitReturned
    /\ Len(words) >= 3
    /\ \E k \in 1..Len(words) : Len(words[k].word) >= 2

\* C2: every span pushed, by whichever flush path, has
\* 0 <= startIndex <= endIndex <= L - 1 and its word is the preprocessed input
\* from startIndex to endIndex inclusive.
C2_SpanIsSubstring ==
    pc # "call" =>
        \A k \in 1..Len(words) :
            /\ 0 <= words[k].startIndex
            /\ words[k].startIndex <= words[k].endIndex
            /\ words[k].endIndex <= Len(sentence) - 1
            /\ words[k].word = Slice(sentence, words[k].startIndex, words[k].endIndex)

\* the cluster flush at i - 3 has just run: a span was pushed before KO + WO,
\* and the cluster with its vowel is the current word
C2_Witness ==
    /\ pc = "scan"
    /\ i >= 4
    /\ currentWord = << LETTER_KO, LETTER_WO, sentence[i] >>
    /\ wordStartIndex = i - 3
    /\ Len(words) >= 1
    /\ words[Len(words)].endIndex = i - 4


\* C3: the Mai Yamok character always forms its own unit: for each occurrence
\* at position p the result holds the one-character span at p, and no span
\* longer than one character contains Mai Yamok.
C3_MaiYamokIsolated ==
    SplitReturned =>
        /\ \A p \in 0..(Len(sentence) - 1) :
              sentence[p + 1] = MAI_YAMOK =>
                  \E k \in 1..Len(words) : words[k] = Span(<< MAI_YAMOK >>, p, p)
        /\ \A k \in 1..Len(words) :
              Len(words[k].word) > 1 => MAI_YAMOK \notin Chars(words[k].word)

\* a span none of whose characters is in the Lao block
IsNonLaoWord(word) == \A c \in Chars(word) : ~isLaoCharacter(c)

\* C4: in check's result every span made of non-Lao characters, of any length,
\* a single character included, has grammarCorrect = true.
C4_NonLaoMarkedCorrect ==
    pc = "done" =>
        \A k \in 1..Len(results) :
            IsNonLaoWord(results[k].word) => results[k].grammarCorrect

\* C5: every space at position p of the preprocessed input yields exactly the
\* span {' ', p, p}, no longer span contains a space, and check marks every
\* space span correct.
C5_SpaceIsolated ==
    pc = "done" =>
        /\ \A p \in 0..(Len(sentence) - 1) :
              sentence[p + 1] = SPACE =>
                  /\ Cardinality({ k \in 1..Len(results) :
                                     /\ results[k].startIndex <= p
                                     /\ p <= results[k].endIndex }) = 1
                  /\ \E k \in 1..Len(results) :
                        results[k] = [ word |-> << SPACE >>, startIndex |-> p,
                                       endIndex |-> p, grammarCorrect |-> TRUE ]
        /\ \A k \in 1..Len(results) :
              Len(results[k].word) > 1 => SPACE \notin Chars(results[k].word)

\* two consecutive spaces between a non-Lao and a Lao character
C5_Witness ==
    /\ pc = "done"
    /\ Len(sentence) = 4
    /\ ~isLaoCharacter(sentence[1]) /\ sentence[1] # SPACE
    /\ sentence[2] = SPACE
    /\ sentence[3] = SPACE
    /\ isLaoCharacter(sentence[4])
    /\ Len(results) = 4

\* a character of a non-Lao run
IsRunChar(c) == c # SPACE /\ ~isLaoCharacter(c)

\* positions a..b of the preprocessed input are a maximal run of non-Lao,
\* non-space characters
IsMaximalRun(a, b) ==
    /\ \A p \in a..b : IsRunChar(CharAt(sentence, p))
    /\ a = 0 \/ ~IsRunChar(CharAt(sentence, a - 1))
    /\ b = Len(sentence) - 1 \/ ~IsRunChar(CharAt(sentence, b + 1))

\* C6: a maximal run of consecutive non-Lao, non-space characters is never
\* split: it is exactly one span, from the run's first to its last position.
C6_NonLaoRunIsOneSpan ==
    SplitReturned =>
        \A a \in 0..(Len(sentence) - 1) : \A b \in a..(Len(sentence) - 1) :
            IsMaximalRun(a, b) =>
                /\ \E k \in 1..Len(words) : words[k] = Span(Slice(sentence, a, b), a, b)
                /\ Cardinality({ k \in 1..Len(words) :
                                   /\ words[k].startIndex <= b
                                   /\ a <= words[k].endIndex }) = 1

\* a run of two or more characters with a Lao character on each side
C6_Witness ==
    /\ SplitReturned
    /\ \E a \in 1..(Len(sentence) - 2) : \E b \in (a + 1)..(Len(sentence) - 2) :
          /\ IsMaximalRun(a, b)
          /\ isLaoCharacter(CharAt(sentence, a - 1))
          /\ isLaoCharacter(CharAt(sentence, b + 1))

\* the preprocessed input as code points
StrippedCodePoints == SelectSeq(text, LAMBDA cp : cp # ZERO_WIDTH_SPACE)

\* the number of UTF-16 code units of the first q code points
UnitsBefore(cps, q) == Len(ToUTF16(SubSeq(cps, 1, q)))

\* C7 as stated: startIndex and endIndex count code points of the preprocessed
\* input, so the word of a span is the code points startIndex..endIndex and a
\* character outside the Basic Multilingual Plane advances the index by one.
C7_CodePointIndices ==
    SplitReturned =>
        \A k \in 1..Len(words) :
            /\ words[k].endIndex < Len(StrippedCodePoints)
            /\ words[k].word =
                   ToUTF16(Slice(StrippedCodePoints, words[k].startIndex, words[k].endIndex))

\* C7 as amended: startIndex and endIndex count UTF-16 code units of the
\* preprocessed input, zero-based and inclusive: a span covers whole code
\* points a..b, starts at the number of code units before a and ends at the
\* last code unit of b, so a character outside the Basic Multilingual Plane
\* advances the index by two.
C7_CodeUnitIndices ==
    SplitReturned =>
        \A k \in 1..Len(words) :
            \E a \in 1..Len(StrippedCodePoints) : \E b \in a..Len(StrippedCodePoints) :
                /\ words[k].startIndex = UnitsBefore(StrippedCodePoints, a - 1)
                /\ words[k].endIndex = UnitsBefore(StrippedCodePoints, b) - 1
                /\ words[k].word = ToUTF16(SubSeq(StrippedCodePoints, a, b))

\* a character outside the Basic Multilingual Plane opens the text and the
\* span of the character after it starts at index 2
C7_Witness ==
    /\ SplitReturned
    /\ Len(text) >= 2
    /\ text[1] > 65535
    /\ \E k \in 1..Len(words) :
          /\ words[k].startIndex = 2
          /\ words[k - 1].endIndex = 1
          /\ Len(words[k - 1].word) = 2

\* C8: check is split followed by per-span validation and nothing else: the
\* same number of results in the same order, each with the span's word and
\* indices, and grammarCorrect the verdict of checkLaoWordGrammar on that
\* span's word alone.
C8_CheckIsMapOverSplit ==
    pc = "done" =>
        /\ Len(results) = Len(words)
        /\ \A k \in 1..Len(results) :
              /\ DOMAIN results[k] = { "word", "startIndex", "endIndex", "grammarCorrect" }
              /\ results[k].word = words[k].word
              /\ results[k].startIndex = words[k].startIndex
              /\ results[k].endIndex = words[k].endIndex
              /\ results[k].grammarCorrect = checkLaoWordGrammar(words[k].word)

\* a result holding a space span, a span judged correct and a span judged
\* incorrect
C8_Witness ==
    /\ pc = "done"
    /\ \E j, k, l \in 1..Len(results) :
          /\ results[j].word = << SPACE >>
          /\ results[k].word # << SPACE >> /\ results[k].grammarCorrect
          /\ ~results[l].grammarCorrect

\* C9: split and check are total: whatever the input, some step can run until
\* check has returned, the loop index never passes the end of the preprocessed
\* input, every iteration consumes one character, and the loop ends having
\* consumed all of them.
C9_Total ==
    /\ pc # "done" => ENABLED Next
    /\ i <= Len(sentence)
    /\ pc = "scan" => wordStartIndex + Len(currentWord) = i
    /\ SplitReturned => i = Len(sentence) \/ Len(sentence) = 0
    /\ pc = "done" => Len(results) = Len(words)

\* check has returned on an input that opens with a lone vowel, not covered by
\* any consonant
C9_Witness ==
    /\ pc = "done"
    /\ Len(sentence) >= 3
    /\ sentence[1] \in MIDDLE_CHARS
    /\ i = Len(sentence)

\* C10: empty input yields an empty result, from split and from check, and so
\* does an input that is empty once the zero width spaces are stripped.
C10_EmptyInputEmptyResult ==
    (pc = "done" /\ StrippedCodePoints = << >>) => words = << >> /\ results = << >>

\* check has returned on a non-empty input made of zero width spaces only
C10_Witness ==
    /\ pc = "done"
    /\ Len(text) >= 2
    /\ StrippedCodePoints = << >>
    /\ results = << >>

C12_NoEmptySpan ==
    /\ pc \in { "scan", "split_done", "done" } =>
            \A k \in 1..Len(words) : Len(words[k].word) > 0
    /\ (pc = "scan" /\ i >= Len(sentence)) =>
            FinalWords = IF Len(currentWord) > 0
                             THEN Append(words, Span(currentWord, wordStartIndex,
                                                     Len(sentence) - 1))
                             ELSE words

\* the loop ended after a flush that had nothing to push (Mai Yamok came
\* first) and one that had
C12_Witness ==
    /\ pc = "scan"
    /\ i >= Len(sentence)
    /\ CharAt(sentence, 0) = MAI_YAMOK
    /\ Len(words) >= 1
    /\ Len(currentWord) > 0

\* C13: split and laoGrammarChecker are deterministic and keep nothing between
\* calls: a call returns the spans and the verdicts that every earlier call on
\* the same text returned, whatever was called in between.
C13_RepeatedCallsAgree ==
    /\ SplitReturned =>
            \A c \in 1..Len(earlier) :
                earlier[c].text = text => earlier[c].words = words
    /\ pc = "done" =>
            \A c \in 1..Len(earlier) :
                earlier[c].text = text => earlier[c].results = results

\* the third call repeated the first, after a call on another text, and
\* returned several words
C13_Witness ==
    /\ pc = "done"
    /\ Len(earlier) = 2
    /\ earlier[1].text = text
    /\ earlier[2].text # text
    /\ Len(earlier[2].results) >= 1
    /\ Len(results) >= 2

\* the sentence "ປ ທ້ດ ລວ" of the repository's test 'should identify incorrect
\* grammar'; split returns "ປ", " ", "ທ້ດ", " ", "ລວ"
IncorrectGrammarSentence == << 3739, 32, 3735, 3785, 3732, 32, 3749, 3751 >>

CheckedIncorrectGrammarSentence ==
    /\ pc = "done"
    /\ text = IncorrectGrammarSentence
    /\ Len(results) = 5

\* C14 as stated: laoGrammarChecker("ປ ທ້ດ ລວ") marks the first word invalid,
\* the second word valid and the third word valid.
C14_SecondAndThirdValid ==
    CheckedIncorrectGrammarSentence =>
        /\ ~results[1].grammarCorrect
        /\ results[3].grammarCorrect
        /\ results[5].grammarCorrect

\* C14, amended: laoGrammarChecker("ປ ທ້ດ ລວ") returns the spans "ປ", " ",
\* "ທ້ດ", " ", "ລວ" and marks all three words invalid and both spaces
\* correct.
C14_AllThreeInvalid ==
    (pc = "done" /\ text = IncorrectGrammarSentence) =>
        /\ [k \in 1..Len(results) |-> results[k].word]
               = << << 3739 >>, << SPACE >>, << 3735, 3785, 3732 >>, << SPACE >>,
                    << 3749, 3751 >> >>
        /\ [k \in 1..Len(results) |-> results[k].grammarCorrect]
               = << FALSE, TRUE, FALSE, TRUE, FALSE >>

C14_Witness ==
    /\ CheckedIncorrectGrammarSentence
    /\ results[3].word = << 3735, 3785, 3732 >>
    /\ ~results[3].grammarCorrect

\* checkLaoWordGrammar has returned
Validated == pc = "validated"

\* the number of consonants of the word
Consonants(w) == Cardinality({ k \in 1..Len(w) : w[k] \in CHECKER_LAO_CONSONANTS })

\* C15: checkLaoWordGrammar returns false for every word of two characters
\* that are both Lao consonants.
C15_TwoConsonantsInvalid ==
    ( /\ Validated
      /\ Len(wordArg) = 2
      /\ wordArg[1] \in CHECKER_LAO_CONSONANTS
      /\ wordArg[2] \in CHECKER_LAO_CONSONANTS ) => ~verdict

\* two different consonants ("ລວ") were rejected
C15_Witness == Validated /\ wordArg = << 3749, 3751 >> /\ ~verdict

\* C16: checkLaoWordGrammar returns false for every word of three characters
\* of the form Consonant, tone mark (MAI EK or MAI THO), Consonant.
C16_ConsonantToneConsonantInvalid ==
    ( /\ Validated
      /\ Len(wordArg) = 3
      /\ wordArg[1] \in CHECKER_LAO_CONSONANTS
      /\ wordArg[2] \in { 3784, 3785 }
      /\ wordArg[3] \in CHECKER_LAO_CONSONANTS ) => ~verdict

\* "ທ້ດ" was rejected
C16_Witness == Validated /\ wordArg = << 3735, 3785, 3732 >> /\ ~verdict

C18_ConsonantCountBounds ==
    ( /\ Validated
      /\ Len(wordArg) >= 2
      /\ isLaoCharacter(wordArg[1])
      /\ verdict ) => Consonants(wordArg) \in 1..4

\* a word of five consonants that breaks no rule of the loop was rejected
C18_Witness ==
    /\ Validated
    /\ Len(wordArg) >= 2
    /\ isLaoCharacter(wordArg[1])
    /\ Consonants(wordArg) = 5
    /\ \A k \in 0..(Len(wordArg) - 1) : ~LoopReturnsFalse(wordArg, k)
    /\ ~verdict

\* C19: checkLaoWordGrammar returns false for every word of two characters
\* that starts with a Lao character and holds a tone mark.
C19_TwoCharactersWithToneInvalid ==
    ( /\ Validated
      /\ Len(wordArg) = 2
      /\ isLaoCharacter(wordArg[1])
      /\ (wordArg[1] \in { 3784, 3785 } \/ wordArg[2] \in { 3784, 3785 }) ) => ~verdict

\* "ກ້" was rejected
C19_Witness == Validated /\ wordArg = << 3713, 3785 >> /\ ~verdict

\* a leading vowel stands after index 0 and is not the second SARA E of "ເເ"
LeadingVowelMisplaced(w) ==
    \E k \in 1..(Len(w) - 1) :
        /\ CharAt(w, k) \in LEADING_VOWELS_RULE1_AND_3
        /\ ~(k = 1 /\ CharAt(w, 1) = SARA_E /\ CharAt(w, 0) = SARA_E)

\* a leading vowel at index 0 is followed by neither a consonant nor, for
\* SARA E, a second SARA E
LeadingVowelUnfollowed(w) ==
    /\ CharAt(w, 0) \in LEADING_VOWELS_RULE1_AND_3
    /\ CharAt(w, 1) \notin CHECKER_LAO_CONSONANTS
    /\ ~(CharAt(w, 0) = SARA_E /\ CharAt(w, 1) = SARA_E)

\* C20: for a word of at least two characters whose first character is Lao,
\* checkLaoWordGrammar returns false if one of the five leading vowels stands
\* at an index above 0 (except SARA E at index 1 after SARA E at index 0), and
\* false if a leading vowel at index 0 is followed by a character that is
\* neither a consonant nor, for SARA E, a second SARA E.
C20_LeadingVowelPlacement ==
    ( /\ Validated
      /\ Len(wordArg) >= 2
      /\ isLaoCharacter(wordArg[1])
      /\ (LeadingVowelMisplaced(wordArg) \/ LeadingVowelUnfollowed(wordArg)) ) => ~verdict

\* a consonant, a vowel and then a leading vowel: only rule 1 rejects it
C20_Witness ==
    /\ Validated
    /\ wordArg = << 3713, 3762, 3777 >>
    /\ ~verdict

\* checkLaoWordGrammar has returned for a word of two or more characters whose
\* first character is Lao
ValidatedLaoWord == Validated /\ Len(wordArg) >= 2 /\ isLaoCharacter(wordArg[1])

\* some tone mark of the word is directly followed by two consonants
ToneBeforeTwoConsonants(w) ==
    \E k \in 0..(Len(w) - 1) :
        /\ CharAt(w, k) \in { 3784, 3785 }
        /\ CharAt(w, k + 1) \in CHECKER_LAO_CONSONANTS
        /\ CharAt(w, k + 2) \in CHECKER_LAO_CONSONANTS

\* C21: a word whose first character is a leading vowel is rejected if one of
\* its tone marks is directly followed by two consonants; the word of a
\* leading vowel, a consonant, a tone mark and one consonant is accepted.
C21_ToneAfterLeadingVowel ==
    /\ ( /\ Validated
         /\ CharAt(wordArg, 0) \in LEADING_VOWELS_RULE1_AND_3
         /\ ToneBeforeTwoConsonants(wordArg) ) => ~verdict
    /\ ( /\ Validated
         /\ Len(wordArg) = 4
         /\ wordArg[1] \in LEADING_VOWELS_RULE1_AND_3
         /\ wordArg[2] \in CHECKER_LAO_CONSONANTS
         /\ wordArg[3] \in { 3784, 3785 }
         /\ wordArg[4] \in CHECKER_LAO_CONSONANTS ) => verdict

\* SARA E, KO, MAI EK, KO, KO was rejected: only rule 3.4 rejects it
C21_Witness ==
    /\ Validated
    /\ wordArg = << SARA_E, 3713, 3784, 3713, 3713 >>
    /\ ~verdict

\* the indices of the word
Indices(w) == 0..(Len(w) - 1)

\* C22: a word of two or more characters with a Lao first character is
\* rejected if the vowel IA is its last character or is followed by a
\* character that is not a consonant.
C22_VowelIANeedsConsonantAfter ==
    ( /\ ValidatedLaoWord
      /\ \E k \in Indices(wordArg) :
            /\ CharAt(wordArg, k) = 3773
            /\ CharAt(wordArg, k + 1) \notin CHECKER_LAO_CONSONANTS ) => ~verdict

\* KO, vowel IA was rejected: only rule 5 rejects it
C22_Witness == Validated /\ wordArg = << 3713, 3773 >> /\ ~verdict

\* the top vowels I, II, Y, YY and the diacritics MAI TI, MAI CATAWA,
\* NIGGAHITA, cancellation mark, MAI KON, MAI KANG, vowels U and UU, ligation
\* mark
TopVowelsAndDiacritics ==
    { 3764, 3765, 3766, 3767 } \cup { 3786, 3787, 3789, 3788, 3771, 3761, 3768, 3769, 3772 }

\* C23: a word of two or more characters with a Lao first character is
\* rejected if a top vowel or a rule 4 diacritic stands at index 0 or directly
\* after a character that is not a consonant.
C23_DiacriticNeedsConsonantBefore ==
    ( /\ ValidatedLaoWord
      /\ \E k \in Indices(wordArg) :
            /\ CharAt(wordArg, k) \in TopVowelsAndDiacritics
            /\ CharAt(wordArg, k - 1) \notin CHECKER_LAO_CONSONANTS ) => ~verdict

\* KO, MAI EK, MAI KANG was rejected: only rule 4 rejects it
C23_Witness == Validated /\ wordArg = << 3713, 3784, 3761 >> /\ ~verdict

\* C24: a word of two or more characters with a Lao first character is
\* rejected if a vowel A or AA has no consonant among the up to three
\* characters before it.
C24_VowelANeedsConsonantBefore ==
    ( /\ ValidatedLaoWord
      /\ \E k \in Indices(wordArg) :
            /\ CharAt(wordArg, k) \in { 3760, 3762 }
            /\ \A d \in 1..3 : CharAt(wordArg, k - d) \notin CHECKER_LAO_CONSONANTS )
        => ~verdict

\* SARA E, SARA E, vowel AA, KO was rejected: only rule 6 rejects it
C24_Witness == Validated /\ wordArg = << SARA_E, SARA_E, 3762, 3713 >> /\ ~verdict

\* the bare vowels of rule 7 and the tone and cancellation marks of rule 9
BareVowels == { 3760, 3762, 3764, 3765, 3766, 3767, 3768, 3769, 3789, 3772, 3761, 3771 }

ToneAndCancellationMarks == { 3784, 3785, 3787, 3788 }

\* C25: a word of two or more characters with a Lao first character is
\* rejected if two adjacent characters are both bare vowels of rule 7 or both
\* tone or cancellation marks of rule 9.
C25_AdjacentVowelsOrMarks ==
    ( /\ ValidatedLaoWord
      /\ \E k \in Indices(wordArg) :
            \/ CharAt(wordArg, k) \in BareVowels /\ CharAt(wordArg, k + 1) \in BareVowels
            \/ /\ CharAt(wordArg, k) \in ToneAndCancellationMarks
               /\ CharAt(wordArg, k + 1) \in ToneAndCancellationMarks ) => ~verdict

\* KO, MAI KANG, vowel A was rejected: only rule 7 rejects it
C25_Witness == Validated /\ wordArg = << 3713, 3761, 3760 >> /\ ~verdict

\* the characters that may not stand before vowel AA or vowel IA
Rule10Previous ==
    { 3760, 3762, 3764, 3765, 3766, 3767, 3768, 3769, 3789, 3786, 3761, 3771, 3787,
      3788, 3773 }

\* C26: a word of two or more characters with a Lao first character is
\* rejected if a vowel AA or IA directly follows a character of the rule 10
\* set or is directly followed by two consonants.
C26_Rule10 ==
    ( /\ ValidatedLaoWord
      /\ \E k \in Indices(wordArg) :
            /\ CharAt(wordArg, k) \in { 3762, 3773 }
            /\ \/ CharAt(wordArg, k - 1) \in Rule10Previous
               \/ /\ CharAt(wordArg, k + 1) \in CHECKER_LAO_CONSONANTS
                  /\ CharAt(wordArg, k + 2) \in CHECKER_LAO_CONSONANTS ) => ~verdict

\* KO, vowel AA, KO, KO was rejected: only rule 10.2 rejects it
C26_Witness == Validated /\ wordArg = << 3713, 3762, 3713, 3713 >> /\ ~verdict

\* U+0EC0 to U+0EC4
FiveLeadingVowels == { 3776, 3777, 3778, 3779, 3780 }

\* a span of the result starts at index p
SpanStartsAt(p) == \E k \in 1..Len(words) : words[k].startIndex = p

\* C27: each of the five leading vowels, met at index p, ends the current word
\* and starts a span at p, unless it is a SARA E directly after a SARA E,
\* which is appended; so in every span a leading vowel stands at index 0 or
\* is a SARA E directly after a SARA E.
C27_LeadingVowelStartsSpan ==
    SplitReturned =>
        /\ \A p \in 0..(Len(sentence) - 1) :
              CharAt(sentence, p) \in FiveLeadingVowels =>
                  (SpanStartsAt(p) <=>
                       ~(CharAt(sentence, p) = SARA_E /\ CharAt(sentence, p - 1) = SARA_E))
        /\ \A k \in 1..Len(words) : \A j \in 1..(Len(words[k].word) - 1) :
              CharAt(words[k].word, j) \in FiveLeadingVowels =>
                  /\ CharAt(words[k].word, j) = SARA_E
                  /\ CharAt(words[k].word, j - 1) = SARA_E

\* "ກເເກ" was split into "ກ" and "ເເກ"
C27_Witness ==
    /\ SplitReturned
    /\ sentence = << 3713, SARA_E, SARA_E, 3713 >>
    /\ Len(words) = 2
    /\ words[2].word = << SARA_E, SARA_E, 3713 >>

\* C28 as stated: U+0EC3 is not in the splitter's leading-vowel set: met after
\* a Lao character it does not trigger the leading-vowel guard, and a span
\* that begins with it starts the text or follows a non-Lao character.
C28_EC3NotALeadingVowel ==
    /\ (InLoop /\ char = 3779 /\ lastCharWasLao) => ~IsLeadingVowel
    /\ SplitReturned =>
            \A k \in 1..Len(words) :
                CharAt(words[k].word, 0) = 3779 =>
                    \/ words[k].startIndex = 0
                    \/ ~isLaoCharacter(CharAt(sentence, words[k].startIndex - 1))

\* C28, amended: U+0EC3 is in the splitter's leading-vowel set like the other
\* four: wherever the loop meets it, the leading-vowel guard runs, and a span
\* starts at each of its occurrences, also directly after a Lao character.
C28_EC3IsALeadingVowel ==
    /\ (InLoop /\ char = 3779) => IsLeadingVowel
    /\ SplitReturned =>
            \A p \in 0..(Len(sentence) - 1) :
                CharAt(sentence, p) = 3779 => SpanStartsAt(p)

\* "ກໃກ" was split into "ກ" and "ໃກ"
C28_Witness ==
    /\ SplitReturned
    /\ sentence = << 3713, 3779, 3713 >>
    /\ Len(words) = 2
    /\ words[2] = Span(<< 3779, 3713 >>, 1, 2)

\* a span of the result ends at index p
SpanEndsAt(p) == \E k \in 1..Len(words) : words[k].endIndex = p

\* the recognised clusters: KO, KHO SUNG or KHO TAM with WO; THO TAM, PO, KO,
\* BO or FO SUNG with RO; HO SUNG with NGO, NYO, LO, WO or RO
ClusterPairs ==
    { << c, 3751 >> : c \in { 3713, 3714, 3716 } }
        \cup { << c, 3747 >> : c \in { 3735, 3739, 3713, 3738, 3743 } }
        \cup { << 3755, c >> : c \in { 3719, 3725, 3749, 3751, 3747 } }

\* a cluster stands at p and p + 1 of the preprocessed input, and a middle
\* character at p + 2
ClusterWithMiddleCharAt(p) ==
    /\ << CharAt(sentence, p), CharAt(sentence, p + 1) >> \in ClusterPairs
    /\ CharAt(sentence, p + 2) \in MIDDLE_CHARS

\* C29: for every recognised cluster directly followed by a middle character,
\* a span starts at the cluster's first character and holds the cluster and
\* the middle character, and what was buffered before the cluster is a span
\* that ends just before it.
C29_ClusterProtected ==
    SplitReturned =>
        \A p \in 0..(Len(sentence) - 3) :
            ClusterWithMiddleCharAt(p) =>
                /\ \E k \in 1..Len(words) :
                      /\ words[k].startIndex = p
                      /\ words[k].endIndex >= p + 2
                      /\ SubSeq(words[k].word, 1, 3) = SubSeq(sentence, p + 1, p + 3)
                /\ p > 0 => SpanEndsAt(p - 1)

\* "ກຫວາ" was split into "ກ" and "ຫວາ"
C29_Witness ==
    /\ SplitReturned
    /\ sentence = << 3713, 3755, 3751, 3762 >>
    /\ words = << Span(<< 3713 >>, 0, 0), Span(<< 3755, 3751, 3762 >>, 1, 3) >>

\* Consonant, WO or O, Consonant stand at p, p + 1 and p + 2
InfixAt(p) ==
    /\ CharAt(sentence, p) \in LAO_CONSONANTS
    /\ CharAt(sentence, p + 1) \in { 3751, 3757 }
    /\ CharAt(sentence, p + 2) \in LAO_CONSONANTS

\* a span starts at the first character of every Consonant, WO / O, Consonant
\* and what was buffered before it is a span that ends just before it
InfixStartsSpan ==
    SplitReturned =>
        \A p \in 0..(Len(sentence) - 3) :
            InfixAt(p) => SpanStartsAt(p) /\ (p > 0 => SpanEndsAt(p - 1))

\* the loop meets WO or O after a Lao character, and the character after it is
\* absent, not Lao or not a consonant: the step appends it and pushes nothing
AppendedWithoutInfix ==
    ( /\ InLoop
      /\ char \in { 3751, 3757 }
      /\ Len(currentWord) > 0
      /\ lastCharWasLao
      /\ nextChar \notin LAO_CONSONANTS )
        => /\ words' = words
           /\ currentWord' = currentWord \o << char >>
           /\ wordStartIndex' = wordStartIndex

\* C30: for every Consonant, WO or O, Consonant in the input a span starts at
\* the first of the three and what was buffered before it is a span ending
\* just before it; when the character after WO or O is absent, not Lao or not
\* a consonant, WO or O is appended and nothing is split.
C30_VaOrOInfix == []InfixStartsSpan /\ [][AppendedWithoutInfix]_vars

\* "ກກອກ" was split into "ກ" and "ກອກ"
C30_Witness ==
    /\ SplitReturned
    /\ sentence = << 3713, 3713, 3757, 3713 >>
    /\ words = << Span(<< 3713 >>, 0, 0), Span(<< 3713, 3757, 3713 >>, 1, 3) >>

\* in the word w a consonant at index p carries a middle character
CarriesMiddleChar(w, p) ==
    /\ CharAt(w, p) \in LAO_CONSONANTS
    /\ CharAt(w, p + 1) \in MIDDLE_CHARS

\* C31: in every span split returns, a consonant at index p >= 1 that is
\* directly followed by a middle character has a leading vowel at p - 1, or
\* p = 1 and the characters at 0 and 1 are a recognised cluster; any other
\* consonant that carries a middle character is the first of its span.
C31_OnsetRule ==
    SplitReturned =>
        \A k \in 1..Len(words) :
            \A p \in 1..(Len(words[k].word) - 2) :
                CarriesMiddleChar(words[k].word, p) =>
                    \/ CharAt(words[k].word, p - 1) \in FiveLeadingVowels
                    \/ /\ p = 1
                       /\ << CharAt(words[k].word, 0), CharAt(words[k].word, 1) >>
                              \in ClusterPairs

\* "ກເກັ" was split into "ກ" and "ເກັ", and "ກກວາ" into "ກ" and "ກວາ"
C31_Witness ==
    /\ SplitReturned
    /\ \/ /\ sentence = << 3713, 3776, 3713, 3761 >>
          /\ words = << Span(<< 3713 >>, 0, 0), Span(<< 3776, 3713, 3761 >>, 1, 3) >>
       \/ /\ sentence = << 3713, 3713, 3751, 3762 >>
          /\ words = << Span(<< 3713 >>, 0, 0), Span(<< 3713, 3751, 3762 >>, 1, 3) >>

\* the strings s and t both have n characters or more and agree on their first n
AgreeOnFirst(s, t, n) ==
    /\ Len(s) >= n
    /\ Len(t) >= n
    /\ SubSeq(s, 1, n) = SubSeq(t, 1, n)

\* v starts with the spans of w, unchanged
StartsWith(v, w) == Len(w) <= Len(v) /\ SubSeq(v, 1, Len(w)) = w

\* the scanner state that the records a and b hold is the same
SameScannerState(a, b) ==
    /\ a.words = b.words
    /\ a.currentWord = b.currentWord
    /\ a.wordStartIndex = b.wordStartIndex

\* C32: when two preprocessed inputs have k + 2 characters or more and agree on
\* their first k + 2, the spans pushed while positions 0..k were scanned, the
\* current word and its start index after position k are the same for both;
\* and the spans pushed at one position are still there, unchanged, at every
\* later position and in the array split returns.
C32_PrefixStability ==
    \A a \in 1..Len(earlier) :
        /\ \A b \in 1..Len(earlier) :
              /\ ( /\ earlier[a].i = earlier[b].i
                    /\ AgreeOnFirst(earlier[a].sentence, earlier[b].sentence,
                                    earlier[a].i + 1) )
                    => SameScannerState(earlier[a], earlier[b])
              /\ ( /\ earlier[a].sentence = earlier[b].sentence
                    /\ earlier[a].i <= earlier[b].i )
                    => StartsWith(earlier[b].words, earlier[a].words)
        /\ (SplitReturned /\ earlier[a].sentence = sentence)
              => StartsWith(words, earlier[a].words)

\* "ກກວກ" was scanned after "ກກວາ": both calls left the same after the second
\* "ກ", where they agree on three characters, and not the same after "ວ",
\* which is split from what is before it only when a consonant follows
C32_Witness ==
    /\ SplitReturned
    /\ sentence = << 3713, 3713, 3751, 3713 >>
    /\ Len(earlier) = 8
    /\ earlier[1].sentence = << 3713, 3713, 3751, 3762 >>
    /\ SameScannerState(earlier[2], earlier[6])
    /\ ~SameScannerState(earlier[3], earlier[7])

\* the spans or results ws with every index raised by n
Shifted(ws, n) ==
    [ k \in 1..Len(ws) |->
        [ ws[k] EXCEPT !.startIndex = @ + n, !.endIndex = @ + n ] ]

\* the calls on a + " " + b and on a have returned, and this call is on b
CalledOnBothSides ==
    /\ Len(earlier) = 2
    /\ earlier[1].text = earlier[2].text \o << SPACE >> \o text

\* C33: for texts a and b without zero width spaces, split on a + " " + b
\* returns what it returns on a, then the span of the space at index |a|, then
\* what it returns on b with every index raised by |a| + 1; and the results
\* of laoGrammarChecker, verdicts included, are composed in the same way.
C33_SpacesAreBoundaries ==
    CalledOnBothSides =>
        LET n == Len(ToUTF16(earlier[2].text))
        IN  /\ SplitReturned =>
                  earlier[1].words =
                      earlier[2].words \o << Span(<< SPACE >>, n, n) >>
                          \o Shifted(words, n + 1)
            /\ pc = "done" =>
                  earlier[1].results =
                      earlier[2].results
                          \o << [ word |-> << SPACE >>, startIndex |-> n,
                                  endIndex |-> n, grammarCorrect |-> TRUE ] >>
                          \o Shifted(results, n + 1)

\* laoGrammarChecker returned on "ກາ ກ", on "ກາ" and on "ກ"
C33_Witness ==
    /\ pc = "done"
    /\ CalledOnBothSides
    /\ earlier[1].text = << 3713, 3762, 32, 3713 >>
    /\ Len(earlier[1].results) = 3
    /\ Len(results) = 1

\* the loop is at the start of iteration i, or has just ended with i at the
\* length of the input
AtLoopHead == pc = "scan"

\* the spans ws cover the positions 0..(n - 1) of the preprocessed input, in
\* order, without gap or overlap, each holding the characters it covers
TilesUpTo(ws, n) ==
    /\ IF Len(ws) = 0 THEN n = 0
        ELSE ws[1].startIndex = 0 /\ ws[Len(ws)].endIndex = n - 1
    /\ \A k \in 1..(Len(ws) - 1) : ws[k + 1].startIndex = ws[k].endIndex + 1
    /\ \A k \in 1..Len(ws) :
          /\ ws[k].startIndex <= ws[k].endIndex
          /\ ws[k].word = Slice(sentence, ws[k].startIndex, ws[k].endIndex)

\* C34: at the start of every iteration i of split's loop, the start index of
\* the current word plus its length is i, the current word is the preprocessed
\* input from its start index to i - 1, and the spans pushed so far cover the
\* positions before the start index exactly; the middle-character branch for
\* an empty current word and the non-Lao append, which assign no start index,
\* keep it.
C34_ScannerInvariant ==
    AtLoopHead =>
        /\ wordStartIndex + Len(currentWord) = i
        /\ currentWord = Slice(sentence, wordStartIndex, i - 1)
        /\ TilesUpTo(words, wordStartIndex)

\* the loop on "ກ າa" is at iteration 3, the current word "າ" started by the
\* middle-character branch after the space; or the loop on "ກ aa" has ended,
\* the current word "aa" started and extended by the non-Lao append
C34_Witness ==
    /\ AtLoopHead
    /\ Len(words) = 2
    /\ wordStartIndex = 2
    /\ \/ i = 3 /\ sentence = << 3713, 32, 3762, 97 >> /\ currentWord = << 3762 >>
       \/ i = 4 /\ sentence = << 3713, 32, 97, 97 >> /\ currentWord = << 97, 97 >>

\* every character of s is in the Lao block
OnlyLao(s) == \A k \in 1..Len(s) : isLaoCharacter(s[k])

\* no character of s is in the Lao block, and none is a space
OnlyNonLao(s) == \A k \in 1..Len(s) : ~isLaoCharacter(s[k]) /\ s[k] # SPACE

\* C35: the current word never holds a Lao and a non-Lao character at the same
\* time and never holds a space; every span split returns is a single space,
\* or holds only non-Lao characters, or holds only characters of the Lao
\* block; so every word that laoGrammarChecker passes to the validator and
\* that its 'first character is not Lao' guard accepts is entirely non-Lao.
C35_ScriptHomogeneity ==
    /\ pc = "scan" => OnlyLao(currentWord) \/ OnlyNonLao(currentWord)
    /\ SplitReturned =>
          \A k \in 1..Len(words) :
              \/ words[k].word = << SPACE >>
              \/ OnlyNonLao(words[k].word)
              \/ OnlyLao(words[k].word)
    /\ pc = "done" =>
          \A k \in 1..Len(results) :
              ( /\ Len(results[k].word) > 1
                /\ ~isLaoCharacter(CharAt(results[k].word, 0)) )
                  => /\ OnlyNonLao(results[k].word)
                     /\ results[k].grammarCorrect

\* "ກaaກ" was checked: the span "aa" between two Lao spans was accepted by the
\* guard
C35_Witness ==
    /\ pc = "done"
    /\ sentence = << 3713, 97, 97, 3713 >>
    /\ Len(results) = 3
    /\ results[2].word = << 97, 97 >>
    /\ results[2].grammarCorrect

\* checkLaoWordGrammar with word-level guard 2 taken out
WithoutGuard2(w) ==
    IF w = << SPACE >> THEN TRUE
    ELSE IF Len(w) = 0 THEN FALSE
    ELSE IF Len(w) = 1 THEN w = << MAI_YAMOK >>
    ELSE IF ~isLaoCharacter(CharAt(w, 0)) THEN TRUE
    ELSE IF /\ Len(w) = 2
            /\ \/ w[1] \in CHECKER_LAO_CONSONANTS /\ w[2] \in CHECKER_LAO_CONSONANTS
               \/ w[1] = w[2] /\ w # << SARA_E, SARA_E >>
        THEN FALSE
    ELSE IF Len(w) = 3 /\ w[1] = w[2] /\ w[2] = w[3] THEN FALSE
    ELSE /\ \A k \in 0..(Len(w) - 1) : ~LoopReturnsFalse(w, k)
         /\ consonantCount(w) # 0
         /\ ~(consonantCount(w) > 4)

\* C36: the guard that rejects the word made of the vowel sign AM alone never
\* returns, and the validator without it returns the same verdict for every
\* word.
C36_BareAMGuardRedundant ==
    Validated =>
        /\ ~Guard2Returns(wordArg)
        /\ verdict = WithoutGuard2(wordArg)

\* the vowel sign AM alone was rejected
C36_Witness ==
    /\ Validated
    /\ wordArg = << 3763 >>
    /\ ~verdict

\* the loop body without rule 8
LoopReturnsFalseWithoutRule8(w, k) ==
    \/ PrimaryRuleFails(w, k)
    \/ Rule7Fails(w, k)
    \/ Rule9Fails(w, k)
    \/ Rule10Fails(w, k)

\* checkLaoWordGrammar with rule 8 taken out
WithoutRule8(w) ==
    IF w = << SPACE >> THEN TRUE
    ELSE IF Len(w) = 0 THEN FALSE
    ELSE IF Len(w) = 1 THEN w = << MAI_YAMOK >>
    ELSE IF w = << VOWEL_AM >> THEN FALSE
    ELSE IF ~isLaoCharacter(CharAt(w, 0)) THEN TRUE
    ELSE IF /\ Len(w) = 2
            /\ \/ w[1] \in CHECKER_LAO_CONSONANTS /\ w[2] \in CHECKER_LAO_CONSONANTS
               \/ w[1] = w[2] /\ w # << SARA_E, SARA_E >>
        THEN FALSE
    ELSE IF Len(w) = 3 /\ w[1] = w[2] /\ w[2] = w[3] THEN FALSE
    ELSE /\ \A k \in 0..(Len(w) - 1) : ~LoopReturnsFalseWithoutRule8(w, k)
         /\ consonantCount(w) # 0
         /\ ~(consonantCount(w) > 4)

\* the pair at k and k + 1 is rejected by rule 7, by rule 9, by rule 4 on the
\* second MAI TI or by rule 5 on the first vowel IA
RejectedByAnotherRule(w, k) ==
    \/ Rule7Fails(w, k)
    \/ Rule9Fails(w, k)
    \/ CharAt(w, k + 1) = 3786 /\ Rule4Fails(w, k + 1)
    \/ CharAt(w, k) = 3773 /\ Rule5Fails(w, k)

\* C37: rule 8 never decides a verdict: for every word the validator without
\* rule 8 returns the same; each pair that rule 8 rejects is rejected by rule
\* 7, 9, 4 or 5 as well; and SARA E is not in the table of rule 8, so that the
\* exemption of the doubled SARA E never applies.
C37_Rule8NeverDecides ==
    Validated =>
        /\ verdict = WithoutRule8(wordArg)
        /\ \A k \in 0..(Len(wordArg) - 1) :
              Rule8Fails(wordArg, k) => RejectedByAnotherRule(wordArg, k)
        /\ SARA_E \notin VOWELS_DIACRITICS_RULE8

\* "ກະະ" was rejected: rule 8 rejects its doubled vowel A, and so does rule 7
C37_Witness ==
    /\ Validated
    /\ wordArg = << 3713, 3760, 3760 >>
    /\ Rule8Fails(wordArg, 1)
    /\ ~verdict

=============================================================================
